---- MODULE Spec2Model ----
(***************************************************************************)
(* A model of superset/common/query_context.py: the QueryContext            *)
(* orchestrator (cache lookup, column validation, source fetch, the         *)
(* post-processing pipeline, annotation merge, cache write, the response    *)
(* envelope), its access gate and its cache-timeout resolution.             *)
(*                                                                          *)
(* Python values are encoded so that values of one field always have one    *)
(* TLA+ type:                                                               *)
(*   - an Optional[int] is a sequence of length <= 1 (<<>> is None);        *)
(*   - an Optional[str] is a string, "None" standing for None;              *)
(*   - an error message is a record [null, msg, args] (null = TRUE is None);*)
(*   - a dict is a function whose DOMAIN is its key set, so that a missing  *)
(*     key (KeyError) is a name outside the DOMAIN;                         *)
(*   - a table (DataFrame) is the sequence of its rows, one cell per row.   *)
(***************************************************************************)
EXTENDS Integers, Sequences, FiniteSets, TLC

VARIABLES
    data_cache,     \* whether cache_manager.data_cache is configured
    cache,          \* the data cache store: per-query key -> stored entry
    written,        \* key -> the call that wrote the entry: its table, its principal
    qc,             \* the QueryContext of the request in progress
    last,           \* the call that has just returned (or raised)
    calls           \* the calls concurrent workers are in the middle of

vars == <<data_cache, cache, written, qc, last, calls>>

-----------------------------------------------------------------------------
(* Bounds of the model *)

\* longest list of query specifications one orchestrator is built from
MaxQueries == 2

\* longest list of annotation layers of one query
MaxLayers == 3

\* number of workers that serve requests concurrently
MaxWorkers == 2

-----------------------------------------------------------------------------
(* Values *)

\* QueryStatus (superset.utils.core)
SUCCESS == "success"
FAILED == "failed"

\* the reserved synthetic time-column name
DTTM_ALIAS == "__timestamp"

\* config["CACHE_DEFAULT_TIMEOUT"]
CACHE_DEFAULT_TIMEOUT == 300

NoneInt == <<>>
Some(v) == <<v>>

Null == [null |-> TRUE, msg |-> "", args |-> <<>>]
Str(m, a) == [null |-> FALSE, msg |-> m, args |-> a]
\* Python truthiness of an Optional[str]
Truthy(e) == ~e.null /\ ~(e.msg = "" /\ e.args = <<>>)

\* pd.DataFrame()
EmptyDf == <<>>
\* {}
EmptyDict == <<>>

RangeSet(s) == {s[i] : i \in DOMAIN s}

\* a faulty variant: the time-column alias is not exempted
SelectCols_keeps_alias(cols, column_names) ==
    SelectSeq(cols, LAMBDA col : col \notin column_names)

RECURSIVE SelectCols(_, _)
\* [col for col in cols if col not in column_names and col != DTTM_ALIAS]
SelectCols(cols, column_names) ==
    IF cols = <<>> THEN <<>>
    ELSE LET col == Head(cols)
             rest == SelectCols(Tail(cols), column_names)
         IN IF col \notin column_names /\ col # DTTM_ALIAS
            THEN <<col>> \o rest
            ELSE rest

-----------------------------------------------------------------------------
(* The collaborators' data: the datasource and the query specifications *)

\* self.datasource: a "table" datasource with an owning connection
Datasource ==
    [ type |-> "table",
      uid |-> "1__table",
      column_names |-> {"region", "sales"},
      cache_timeout |-> NoneInt,
      has_database |-> TRUE,
      database_cache_timeout |-> NoneInt ]

\* a metric is a saved metric (no column) or a simple ad-hoc metric on a column
SavedMetric(n) == [label |-> n, column |-> ""]
AdhocMetric(c) == [label |-> c, column |-> c]

\* get_column_names_from_metrics: the columns of the metrics that have one
RECURSIVE get_column_names_from_metrics(_)
get_column_names_from_metrics(metrics) ==
    IF metrics = <<>> THEN <<>>
    ELSE (IF Head(metrics).column = "" THEN <<>> ELSE <<Head(metrics).column>>)
         \o get_column_names_from_metrics(Tail(metrics))

Layer(n, t, v) == [name |-> n, sourceType |-> t, value |-> v]

\* The QueryObjects requests are built from, by id.  "None" is a falsy
\* query_obj.
QueryObjects ==
    [ q1 |-> [ columns |-> <<>>, groupby |-> <<"region", "__timestamp">>,
               metrics |-> <<AdhocMetric("sales")>>,
               post_processing |-> <<"dropna">>,
               annotation_layers |->
                   << Layer("Holidays", "line", "c7"),
                      Layer("Holidays", "NATIVE", "a1") >> ],
      q2 |-> [ columns |-> <<"__timestamp", "city">>, groupby |-> <<"city">>,
               metrics |-> <<SavedMetric("count"), AdhocMetric("revenue")>>,
               post_processing |-> <<>>,
               annotation_layers |-> <<>> ] ]

QueryIds == DOMAIN QueryObjects
NoQuery == "None"
NoKey == <<>>

\* QueryObject.cache_key: a digest of the query's fields and of the extra
\* fields it is given (the datasource's uid, extra cache keys and changed_on
\* are those of the one datasource).  Two canonical states that differ have
\* different digests: the state stands for its digest.
cache_key_digest(q, datasource_uid, rls) == <<q, datasource_uid, rls>>

\* a faulty variant: the row-level-security ids never enter the key
rls_for_key_always_empty(ctx) ==
    <<>>

\* the rls argument of the key: the principal's ids when the feature is
\* enabled and the datasource supports it, else the empty list
rls_for_key(ctx) ==
    IF ctx.rls_feature /\ ctx.is_rls_supported THEN ctx.rls_ids ELSE <<>>

\* the per-query key of a query of the orchestrator ctx
query_cache_key(ctx, q) ==
    IF q # NoQuery
    THEN cache_key_digest(q, Datasource.uid, rls_for_key(ctx))
    ELSE NoKey

\* the keys of the queries when no row-level-security id enters them
Keys == {cache_key_digest(q, Datasource.uid, <<>>) : q \in QueryIds}

-----------------------------------------------------------------------------
(* cache_timeout: the resolved cache timeout.  The result is                *)
(* [raised, value]; raised = "AttributeError" when the expression           *)
(* self.datasource.database is evaluated on a datasource without one.       *)

cache_timeout(custom, ds) ==
    IF custom # NoneInt
    THEN [raised |-> "None", value |-> custom]
    ELSE IF ds.cache_timeout # NoneInt
    THEN [raised |-> "None", value |-> ds.cache_timeout]
    \* (hasattr(ds, "database") and ds.database.cache_timeout) is not None:
    \* without the attribute the operand is False, and False is not None
    ELSE IF ~ds.has_database
    THEN [raised |-> "AttributeError", value |-> NoneInt]
    ELSE IF ds.database_cache_timeout # NoneInt
    THEN [raised |-> "None", value |-> ds.database_cache_timeout]
    ELSE [raised |-> "None", value |-> Some(CACHE_DEFAULT_TIMEOUT)]

-----------------------------------------------------------------------------
(* Exceptions.  A function that may raise returns a record whose field      *)
(* raised is "None" or the exception's class, and err its message.          *)

VALIDATION == "QueryObjectValidationError"

-----------------------------------------------------------------------------
(* Annotation merge.  ann is what the annotation providers answer:          *)
(*   ann.layers  the ids AnnotationLayerDAO.find_by_ids resolves,           *)
(*   ann.charts  the ids ChartDAO.find_by_id resolves,                      *)
(*   ann.viz     how re-executing the referenced visualization ends.        *)

\* a faulty variant: a name that is already there keeps its value
Put_keeps_first(d, k, v) ==
    [n \in DOMAIN d \cup {k} |-> IF n \in DOMAIN d THEN d[n] ELSE v]

\* d[k] = v
Put(d, k, v) == [n \in DOMAIN d \cup {k} |-> IF n = k THEN v ELSE d[n]]

IsNative(layer) == layer.sourceType = "NATIVE"
IsDerived(layer) == layer.sourceType \in {"line", "table"}

NATIVE_COLUMNS ==
    <<"start_dttm", "end_dttm", "short_descr", "long_descr", "json_metadata">>

RECURSIVE native_loop(_, _, _)
\* the loop "for layer in annotation_layers" of get_native_annotation_data
native_loop(layers, ann, acc) ==
    IF layers = <<>> THEN [raised |-> "None", err |-> Null, value |-> acc]
    ELSE LET layer == Head(layers)
         IN IF layer.value \notin ann.layers
            \* layer_objects[layer_id]
            THEN [raised |-> "KeyError", err |-> Str("", <<layer.value>>),
                  value |-> acc]
            ELSE native_loop(Tail(layers), ann,
                     Put(acc, layer.name,
                         [columns |-> NATIVE_COLUMNS, source |-> "native",
                          records |-> layer.value, force |-> FALSE]))

get_native_annotation_data(query_obj, ann) ==
    native_loop(SelectSeq(query_obj.annotation_layers, IsNative), ann, EmptyDict)

get_viz_annotation_data(annotation_layer, force, ann) ==
    IF annotation_layer.value \notin ann.charts
    \* chart is None and chart.form_data is read before "if not chart"
    THEN [raised |-> "AttributeError",
          err |-> Str("'NoneType' object has no attribute 'form_data'", <<>>),
          value |-> EmptyDict]
    ELSE IF ann.viz = "SupersetException"
    THEN [raised |-> VALIDATION, err |-> Str("viz failed", <<>>),
          value |-> EmptyDict]
    ELSE IF ann.viz = "Exception"
    THEN [raised |-> "Exception", err |-> Str("viz crashed", <<>>),
          value |-> EmptyDict]
    ELSE [raised |-> "None", err |-> Null,
          value |-> [columns |-> <<>>, source |-> "viz",
                     records |-> annotation_layer.value, force |-> force]]

RECURSIVE viz_loop(_, _, _, _)
\* the loop over the derived layers of get_annotation_data
viz_loop(layers, force, ann, acc) ==
    IF layers = <<>> THEN [raised |-> "None", err |-> Null, value |-> acc]
    ELSE LET r == get_viz_annotation_data(Head(layers), force, ann)
         IN IF r.raised # "None"
            THEN [raised |-> r.raised, err |-> r.err, value |-> acc]
            ELSE viz_loop(Tail(layers), force, ann,
                          Put(acc, Head(layers).name, r.value))

get_annotation_data(query_obj, force, ann) ==
    LET native == get_native_annotation_data(query_obj, ann)
    IN IF native.raised # "None" THEN native
       ELSE viz_loop(SelectSeq(query_obj.annotation_layers, IsDerived),
                     force, ann, native.value)

-----------------------------------------------------------------------------
(* get_query_result: the source query and the post-processing pipeline.    *)
(* ds is the datasource's answer, pp how the pipeline's external steps end. *)

\* df.replace([np.inf, -np.inf], np.nan)
RECURSIVE replace_inf(_)
replace_inf(df) ==
    IF df = <<>> THEN <<>>
    ELSE <<IF Head(df) \in {"inf", "-inf"} THEN "nan" ELSE Head(df)>>
         \o replace_inf(Tail(df))

IsNotNan(cell) == cell # "nan"

RECURSIVE exec_post_processing(_, _)
\* the query's post-processing operations, in order, each on the previous
\* one's output
exec_post_processing(df, operations) ==
    IF operations = <<>> THEN df
    ELSE exec_post_processing(
             CASE Head(operations) = "dropna" -> SelectSeq(df, IsNotNan)
               [] OTHER -> df,
             Tail(operations))

\* a faulty variant: the pipeline runs on every table
df_empty_never(df) ==
    FALSE

\* df.empty
df_empty(df) ==
    Len(df) = 0

get_query_result(query_obj, ds, pp) ==
    IF ds.raised # "None"
    THEN [raised |-> ds.raised, err |-> ds.err, ops |-> <<"datasource.query">>]
    ELSE IF df_empty(ds.df)
    THEN [raised |-> "None", err |-> Null, ops |-> <<"datasource.query">>,
          query |-> ds.query, status |-> ds.status,
          error_message |-> ds.error_message, df |-> ds.df]
    ELSE IF pp = "normalize_raises"
    THEN [raised |-> "Exception", err |-> Str("bad timestamp", <<>>),
          ops |-> <<"datasource.query", "normalize_dttm_col">>]
    ELSE IF pp \in {"post_validation", "post_exception"}
    THEN [raised |-> IF pp = "post_validation" THEN VALIDATION ELSE "Exception",
          err |-> Str("bad post-processing", <<>>),
          ops |-> <<"datasource.query", "normalize_dttm_col",
                    "df_metrics_to_num", "replace_inf", "exec_post_processing">>]
    ELSE [raised |-> "None", err |-> Null,
          ops |-> <<"datasource.query", "normalize_dttm_col",
                    "df_metrics_to_num", "replace_inf", "exec_post_processing">>,
          query |-> ds.query, status |-> ds.status,
          error_message |-> ds.error_message,
          df |-> exec_post_processing(replace_inf(ds.df),
                                      query_obj.post_processing)]

-----------------------------------------------------------------------------
(* get_df_payload, stage by stage *)

\* a faulty variant: the force flag is not looked at
should_consult_ignores_force(cache_key, configured, force) ==
    cache_key # NoKey /\ configured

\* the condition of the cache lookup
should_consult(cache_key, configured, force) ==
    cache_key # NoKey /\ configured /\ ~force

\* the cache read: what the locals hold after it
cache_read(cache_key, configured, force, store) ==
    LET consulted == should_consult(cache_key, configured, force)
        \* cache_value is not None
        found == consulted /\ cache_key \in DOMAIN store
        cache_value == IF found THEN store[cache_key] ELSE EmptyDict
        \* "if cache_value:" an empty dict is falsy
        truthy == found /\ DOMAIN cache_value # {}
        \* cache_value["df"], then cache_value["query"]: KeyError when missing
        has_df == truthy /\ "df" \in DOMAIN cache_value
        has_query == has_df /\ "query" \in DOMAIN cache_value
    IN  [ found |-> found,
          cache_value |-> cache_value,
          df |-> IF has_df THEN cache_value.df ELSE EmptyDf,
          query |-> IF has_query THEN cache_value.query ELSE "",
          annotation_data |->
              IF has_query /\ "annotation_data" \in DOMAIN cache_value
              THEN cache_value.annotation_data ELSE EmptyDict,
          status |-> IF has_query THEN SUCCESS ELSE "None",
          is_loaded |-> has_query,
          ops |-> IF consulted THEN <<"data_cache.get">> ELSE <<>> ]

\* the try block ended without an exception
Uncaught == [class |-> "None", err |-> Null]

\* a faulty variant: the stacktrace is never captured
on_exception_drops_stacktrace(raised, err, error_message) ==
    [error_message |-> IF raised # VALIDATION /\ Truthy(error_message)
                       THEN error_message ELSE err,
     status |-> FAILED, stacktrace |-> "None",
     caught |-> [class |-> raised, err |-> err]]

\* the two except clauses of the fetch: what they leave in the locals
\* (caught is the exception, for the record of the call)
on_exception(raised, err, error_message) ==
    IF raised = VALIDATION
    THEN [error_message |-> err, status |-> FAILED, stacktrace |-> "None",
          caught |-> [class |-> raised, err |-> err]]
    ELSE [error_message |-> IF Truthy(error_message) THEN error_message ELSE err,
          status |-> FAILED, stacktrace |-> "traceback",
          caught |-> [class |-> raised, err |-> err]]

\* all the column names the query refers to
referenced_columns(query_obj) ==
    query_obj.columns \o query_obj.groupby
        \o get_column_names_from_metrics(query_obj.metrics)

\* the locals the try block leaves untouched when it raises before
\* assigning them
kept_locals(rd) ==
    [query |-> rd.query, df |-> rd.df,
     annotation_data |-> rd.annotation_data, is_loaded |-> FALSE]

\* the try block once get_annotation_data has returned or raised (a)
fetch_annotated(rd, r, a) ==
    IF a.raised # "None"
    THEN [query |-> r.query, df |-> r.df,
          annotation_data |-> rd.annotation_data, is_loaded |-> FALSE,
          ops |-> <<"column_validation">> \o r.ops \o <<"get_annotation_data">>]
         @@ on_exception(a.raised, a.err, r.error_message)
    ELSE [query |-> r.query, df |-> r.df, annotation_data |-> a.value,
          is_loaded |-> r.status # FAILED,
          ops |-> <<"column_validation">> \o r.ops \o <<"get_annotation_data">>,
          error_message |-> r.error_message, status |-> r.status,
          stacktrace |-> "None", caught |-> Uncaught]

\* the try block once get_query_result has returned or raised (r)
fetch_queried(query_obj, force, rd, ann, r) ==
    IF r.raised # "None"
    THEN kept_locals(rd) @@ on_exception(r.raised, r.err, Null)
             @@ [ops |-> <<"column_validation">> \o r.ops]
    ELSE fetch_annotated(rd, r, get_annotation_data(query_obj, force, ann))

\* the try block once the invalid columns are known
fetch_validated(query_obj, force, rd, env, invalid_columns) ==
    IF invalid_columns # <<>>
    THEN kept_locals(rd)
             @@ on_exception(VALIDATION,
                    Str("Columns missing in datasource", invalid_columns), Null)
             @@ [ops |-> <<"column_validation">>]
    ELSE fetch_queried(query_obj, force, rd, env.ann,
                       get_query_result(query_obj, env.ds, env.pp))

\* the try block: column validation, the source query, the annotation merge
source_fetch(query_obj, force, rd, env) ==
    fetch_validated(query_obj, force, rd, env,
        SelectCols(referenced_columns(query_obj), Datasource.column_names))

\* the locals when the fetch is skipped (the entry was loaded, or query_obj
\* is falsy)
no_fetch(rd) ==
    [query |-> rd.query, df |-> rd.df, annotation_data |-> rd.annotation_data,
     is_loaded |-> rd.is_loaded, ops |-> <<>>, error_message |-> Null,
     status |-> rd.status, stacktrace |-> "None", caught |-> Uncaught]

\* set_and_log_cache: the value is stored with the time of the write
set_and_log_cache(configured, store, cache_key, value, timeout) ==
    IF configured
    THEN Put(store, cache_key, value @@ [dttm |-> "now"])
    ELSE store

\* a faulty variant: whatever was fetched is written under the key
should_write_any_status(is_loaded, cache_key, status) ==
    cache_key # NoKey

\* the condition of the cache write
should_write(is_loaded, cache_key, status) ==
    is_loaded /\ cache_key # NoKey /\ status # FAILED

\* a faulty variant: the table of before the fetch is cached
value_to_cache_stale_df(f) ==
    [df |-> EmptyDf, query |-> f.query, annotation_data |-> f.annotation_data]

\* the value handed to set_and_log_cache
value_to_cache(f) ==
    [df |-> f.df, query |-> f.query, annotation_data |-> f.annotation_data]

\* a faulty variant: the cache-only check is missing
cache_load_never_fails(force_cached, is_loaded) ==
    FALSE

\* the condition of the cache-only failure
cache_load_fails(force_cached, is_loaded) ==
    force_cached /\ ~is_loaded

\* a faulty variant: the source is fetched whether or not the entry was loaded
should_fetch_ignores_loaded(q, is_loaded) ==
    q # NoQuery

\* the condition of the source fetch
should_fetch(q, is_loaded) ==
    q # NoQuery /\ ~is_loaded

\* the envelope returned
envelope(cache_key, rd, f, timeout) ==
    [ cache_key |-> cache_key,
      cached_dttm |-> IF rd.found THEN rd.cache_value.dttm ELSE "None",
      cache_timeout |-> timeout.value,
      df |-> f.df,
      annotation_data |-> f.annotation_data,
      error |-> f.error_message,
      is_cached |-> rd.found,
      query |-> f.query,
      status |-> f.status,
      stacktrace |-> f.stacktrace,
      rowcount |-> Len(f.df) ]

\* the cache write and the return, the locals being f
write_and_return(ctx, store, cache_key, rd, f, write, timeout) ==
    \* self.cache_timeout, an argument of set_and_log_cache
    IF write /\ timeout.raised # "None"
    THEN [raised |-> timeout.raised, ops |-> rd.ops \o f.ops, store |-> store,
          wrote |-> FALSE, caught |-> f.caught]
    \* cache_value["dttm"]
    ELSE IF rd.found /\ "dttm" \notin DOMAIN rd.cache_value
    THEN [raised |-> "KeyError",
          ops |-> rd.ops \o f.ops
                    \o IF write THEN <<"data_cache.set">> ELSE <<>>,
          store |-> IF write
                    THEN set_and_log_cache(ctx.data_cache, store, cache_key,
                             value_to_cache(f),
                             timeout.value)
                    ELSE store,
          wrote |-> write, caught |-> f.caught]
    ELSE IF timeout.raised # "None"
    THEN [raised |-> timeout.raised, ops |-> rd.ops \o f.ops, store |-> store,
          wrote |-> FALSE, caught |-> f.caught]
    ELSE [raised |-> "None",
          ops |-> rd.ops \o f.ops
                    \o IF write THEN <<"data_cache.set">> ELSE <<>>,
          store |-> IF write
                    THEN set_and_log_cache(ctx.data_cache, store, cache_key,
                             value_to_cache(f),
                             timeout.value)
                    ELSE store,
          wrote |-> write, caught |-> f.caught,
          envelope |-> envelope(cache_key, rd, f, timeout)]

\* get_df_payload once the fetch is over, the locals being f
after_fetch(ctx, store, cache_key, rd, fetch, f) ==
    write_and_return(ctx, store, cache_key, rd, f,
        fetch /\ should_write(f.is_loaded, cache_key, f.status),
        cache_timeout(ctx.custom_cache_timeout, Datasource))

\* get_df_payload once the cache was read, the locals being rd
after_read(ctx, q, force_cached, store, env, cache_key, rd) ==
    IF cache_load_fails(force_cached, rd.is_loaded)
    THEN [raised |-> "CacheLoadError", ops |-> rd.ops, store |-> store,
          wrote |-> FALSE, caught |-> Uncaught]
    ELSE after_fetch(ctx, store, cache_key, rd, should_fetch(q, rd.is_loaded),
             IF should_fetch(q, rd.is_loaded)
             THEN source_fetch(QueryObjects[q], ctx.force, rd, env)
             ELSE no_fetch(rd))

\* The result is [raised, ops, store, wrote, caught] and, when nothing is
\* raised, the envelope: ops are the steps taken, in order, store the data
\* cache afterwards, caught the class of the exception the try block of the
\* fetch caught.
get_df_payload(ctx, q, force_cached, store, env) ==
    after_read(ctx, q, force_cached, store, env, query_cache_key(ctx, q),
        cache_read(query_cache_key(ctx, q), ctx.data_cache, ctx.force, store))

-----------------------------------------------------------------------------
(* The environment's answers *)

\* what datasource.query returns
DsReturns ==
    { [raised |-> "None", err |-> Null, status |-> st, error_message |-> em,
       df |-> df, query |-> "SELECT"] :
          st \in {SUCCESS, FAILED},
          em \in {Null, Str("db error", <<>>)},
          df \in {EmptyDf, <<"inf", "2">>} }

\* the exception it raises
DsRaises == { [raised |-> "Exception", err |-> Str("connection lost", <<>>)] }

PpFailures == {"normalize_raises", "post_validation", "post_exception"}

AnnDefault == [layers |-> {"a1"}, charts |-> {"c7"}, viz |-> "ok"]

\* the annotation providers' answers: a layer id or a chart id that does not
\* resolve, and the three ways the re-executed visualization ends
AnnAnswers ==
    { [layers |-> {}, charts |-> {"c7"}, viz |-> "ok"],
      [layers |-> {"a1"}, charts |-> {}, viz |-> "ok"] }
    \cup { [layers |-> {"a1"}, charts |-> {"c7"}, viz |-> v] :
               v \in {"ok", "SupersetException", "Exception"} }

\* whether a call reaches datasource.query
reaches_source(ctx, q, force_cached, store) ==
    /\ q # NoQuery
    /\ ~force_cached
    /\ ~cache_read(query_cache_key(ctx, q), ctx.data_cache, ctx.force,
                   store).is_loaded
    /\ SelectCols(referenced_columns(QueryObjects[q]),
                  Datasource.column_names) = <<>>

\* The answers that make a difference to a call: none when the source is not
\* reached, the pipeline's outcome on a non-empty table only, the annotation
\* providers' answers only once the pipeline is through.
Envs(ctx, q, force_cached, store) ==
    IF ~reaches_source(ctx, q, force_cached, store)
    THEN { [ds |-> CHOOSE d \in DsRaises : TRUE, pp |-> "ok",
            ann |-> AnnDefault] }
    ELSE { [ds |-> d, pp |-> "ok", ann |-> AnnDefault] : d \in DsRaises }
         \cup { [ds |-> d, pp |-> p, ann |-> AnnDefault] :
                    d \in {x \in DsReturns : x.df # EmptyDf}, p \in PpFailures }
         \cup { [ds |-> d, pp |-> "ok", ann |-> a] :
                    d \in DsReturns,
                    a \in IF QueryObjects[q].annotation_layers = <<>>
                          THEN {AnnDefault} ELSE AnnAnswers }

\* entries another writer of the shared store may leave under a key, each
\* with the time of its write: a well-formed one, one of before annotation
\* data was cached, and malformed ones
ExternalEntries ==
    { [df |-> <<"1">>, query |-> "SELECT old", annotation_data |-> EmptyDict,
       dttm |-> "t0"],
      [df |-> <<"1">>, query |-> "SELECT old", dttm |-> "t0"],
      [df |-> <<"1">>, dttm |-> "t0"],
      [query |-> "SELECT old", dttm |-> "t0"] }

-----------------------------------------------------------------------------
(* The state machine of the shared data cache and the calls on it *)

NoCall == [called |-> FALSE]

\* no worker is in a call and no call has fetched anything
NoCalls == [workers |-> <<>>, produced |-> {}]

NoContext ==
    [ phase |-> "none", force |-> FALSE, custom_cache_timeout |-> NoneInt,
      queries |-> <<>>, force_cached |-> FALSE, cache_query_context |-> FALSE,
      idx |-> 0, results |-> <<>>, permitted |-> FALSE, access_ops |-> <<>>,
      queried |-> FALSE, snapshot |-> <<>>,
      return_value |-> [queries |-> <<>>, cache_key |-> <<>>],
      access_raised |-> "None", invalid |-> {}, principal_permitted |-> FALSE,
      rls_feature |-> FALSE, is_rls_supported |-> FALSE ]

Init ==
    /\ data_cache \in BOOLEAN
    /\ cache = EmptyDict
    /\ written = EmptyDict
    /\ calls = NoCalls
    /\ qc = NoContext
    /\ last = NoCall

Remove(d, k) == [n \in DOMAIN d \ {k} |-> d[n]]

\* an entry the cache read finds but cannot load
Malformed(e) == ~({"df", "query"} \subseteq DOMAIN e)

\* What one get_df_payload call leaves behind: its inputs, the collaborators'
\* answers, the entry the store held under its key, its result and, when that
\* entry is malformed, the result of the same call on a store with no entry
\* under the key (miss).
Record(ctx, q, force_cached, env, store, r, miss) ==
    [ called |-> TRUE, q |-> q, force |-> ctx.force,
      force_cached |-> force_cached, env |-> env,
      rls_ids |-> ctx.rls_ids, key |-> query_cache_key(ctx, q),
      had_entry |-> query_cache_key(ctx, q) \in DOMAIN store,
      entry |-> IF query_cache_key(ctx, q) \in DOMAIN store
                THEN store[query_cache_key(ctx, q)] ELSE EmptyDict,
      prior |-> IF query_cache_key(ctx, q) \in DOMAIN written
                THEN <<written[query_cache_key(ctx, q)].df>> ELSE <<>>,
      writer |-> IF query_cache_key(ctx, q) \in DOMAIN written
                 THEN <<written[query_cache_key(ctx, q)].by>> ELSE <<>>,
      store_changed |-> r.store # store,
      result |-> [x \in DOMAIN r \ {"store"} |-> r[x]],
      miss |-> IF query_cache_key(ctx, q) \in DOMAIN store
                  /\ Malformed(store[query_cache_key(ctx, q)])
               THEN [x \in DOMAIN miss \ {"store"} |-> miss[x]]
               ELSE [x \in DOMAIN r \ {"store"} |-> r[x]] ]

\* the entries written by calls: the table the call returned and the
\* row-level-security ids of its principal
Written(ctx, q, r) ==
    IF r.wrote /\ data_cache
    THEN IF r.raised = "None"
         THEN Put(written, query_cache_key(ctx, q),
                  [df |-> r.envelope.df, by |-> ctx.rls_ids])
         ELSE Remove(written, query_cache_key(ctx, q))
    ELSE written

\* get_df_payload has returned or raised: r
Returned(ctx, q, force_cached, env, r, miss) ==
    /\ cache' = r.store
    /\ last' = Record(ctx, q, force_cached, env, cache, r, miss)
    /\ written' = Written(ctx, q, r)

\* the orchestrator of a request of a principal whose row-level-security
\* ids are rls_ids
CtxOf(force, custom_cache_timeout, rls_ids) ==
    [force |-> force, custom_cache_timeout |-> custom_cache_timeout,
     data_cache |-> data_cache, rls_feature |-> qc.rls_feature,
     is_rls_supported |-> qc.is_rls_supported, rls_ids |-> rls_ids]

\* the orchestrator of a request of a principal without such ids
Ctx(force, custom_cache_timeout) == CtxOf(force, custom_cache_timeout, <<>>)

\* a request builds a QueryContext and get_df_payload runs on a query
GetDfPayload(force, custom_cache_timeout, q, force_cached) ==
    /\ \E env \in Envs(Ctx(force, custom_cache_timeout), q, force_cached, cache) :
           Returned(Ctx(force, custom_cache_timeout), q, force_cached, env,
               get_df_payload(Ctx(force, custom_cache_timeout), q,
                              force_cached, cache, env),
               get_df_payload(Ctx(force, custom_cache_timeout), q,
                              force_cached,
                              Remove(cache,
                                  query_cache_key(
                                      Ctx(force, custom_cache_timeout), q)),
                              env))
    /\ UNCHANGED <<calls, data_cache, qc>>

\* another writer of the shared cache store sets a key
ExternalCacheSet(k, e) ==
    /\ data_cache
    /\ cache' = Put(cache, k, e)
    /\ written' = Remove(written, k)
    /\ last' = NoCall
    /\ UNCHANGED <<calls, data_cache, qc>>

Next ==
    \/ \E force \in BOOLEAN, custom \in {NoneInt, Some(0)},
          q \in QueryIds \cup {NoQuery}, force_cached \in BOOLEAN :
           GetDfPayload(force, custom, q, force_cached)
    \/ \E k \in Keys, e \in ExternalEntries : ExternalCacheSet(k, e)

Spec == Init /\ [][Next]_vars

-----------------------------------------------------------------------------
(* The state machine of one request after another: the orchestrator is      *)
(* built, the caller runs the access gate and, once it has passed,          *)
(* get_payload, which takes the queries one by one.                         *)

RECURSIVE SeqsUpTo(_, _)
SeqsUpTo(S, n) ==
    IF n = 0 THEN {<<>>}
    ELSE SeqsUpTo(S, n - 1)
         \cup {Append(x, y) : x \in SeqsUpTo(S, n - 1), y \in S}

\* the lists of query specifications an orchestrator is built from
QueryLists == SeqsUpTo(QueryIds, MaxQueries)

\* QueryContext.__init__
Construct(queries, force, custom_cache_timeout) ==
    /\ qc.phase \in {"none", "denied", "raised", "done"}
    /\ qc' = [NoContext EXCEPT !.phase = "new", !.force = force,
                               !.custom_cache_timeout = custom_cache_timeout,
                               !.queries = queries]
    /\ last' = NoCall
    /\ UNCHANGED <<calls, data_cache, cache, written>>

\* the checks of the gate, as they are recorded: query.validate() on the
\* query at position i of the list, and the permission check
Validate(i) == [op |-> "query.validate", query |-> i]
PermissionCheck == [op |-> "security_manager.raise_for_access", query |-> 0]

RECURSIVE Validations(_)
\* query.validate() on the first n queries, in list order
Validations(n) ==
    IF n = 0 THEN <<>> ELSE Append(Validations(n - 1), Validate(n))

RECURSIVE validate_loop_swallows(_, _, _, _)
\* a faulty variant: a validation error does not end the loop
validate_loop_swallows(queries, i, invalid, ops) ==
    IF i > Len(queries) THEN [raised |-> "None", ops |-> ops]
    ELSE validate_loop_swallows(queries, i + 1, invalid,
                                Append(ops, Validate(i)))

RECURSIVE validate_loop(_, _, _, _)
\* "for query in self.queries: query.validate()" from position i on; invalid
\* are the positions of the queries whose validate() raises
validate_loop(queries, i, invalid, ops) ==
    IF i > Len(queries) THEN [raised |-> "None", ops |-> ops]
    ELSE IF i \in invalid
    THEN [raised |-> VALIDATION, ops |-> Append(ops, Validate(i))]
    ELSE validate_loop(queries, i + 1, invalid, Append(ops, Validate(i)))

\* the permission check once the loop has ended: v
permission_check(v, permitted) ==
    IF v.raised # "None" THEN v
    ELSE [raised |-> IF permitted THEN "None" ELSE "SupersetSecurityException",
          ops |-> Append(v.ops, PermissionCheck)]

\* a faulty variant: a failed permission check is not raised
raise_for_access_swallows(queries, invalid, permitted) ==
    permission_check(validate_loop(queries, 1, invalid, <<>>), TRUE)

\* raise_for_access: every query is validated, then the permission check
\* passes or raises.  ops are the checks made, in order.
raise_for_access(queries, invalid, permitted) ==
    permission_check(validate_loop(queries, 1, invalid, <<>>), permitted)

\* the gate has run: r.  The caller goes on only when nothing was raised.
Gate(r, invalid, permitted) ==
    qc' = [qc EXCEPT !.phase = IF r.raised = "None" THEN "granted" ELSE "denied",
                     !.permitted = invalid = {} /\ permitted,
                     !.access_ops = r.ops,
                     !.access_raised = r.raised,
                     !.invalid = invalid,
                     !.principal_permitted = permitted]

RaiseForAccess(invalid, permitted) ==
    /\ qc.phase = "new"
    /\ invalid \subseteq DOMAIN qc.queries
    /\ Gate(raise_for_access(qc.queries, invalid, permitted), invalid, permitted)
    /\ UNCHANGED <<calls, data_cache, cache, written, last>>

\* the whole-context key: "qc-" and a hash of cache_values
context_cache_key(ctx) ==
    [ prefix |-> "qc-",
      datasource |-> Datasource.uid, queries |-> ctx.queries,
      result_type |-> "full", result_format |-> "json" ]

\* self.cache_values
cache_values(ctx) ==
    [ datasource |-> Datasource.uid, queries |-> ctx.queries,
      result_type |-> "full", result_format |-> "json" ]

\* a faulty variant: the snapshot is written whatever cache_query_context is
Finish_always_caches(ctx) ==
    qc' = [ctx EXCEPT !.phase = "done",
                      !.snapshot = << [key |-> context_cache_key(ctx),
                                       data |-> cache_values(ctx)] >>,
                      !.return_value =
                          [queries |-> ctx.results,
                           cache_key |-> <<context_cache_key(ctx)>>]]

\* get_payload after the last query: the whole-context snapshot handed to
\* set_and_log_cache when cache_query_context is set, and the return value
\* (cache_key: a sequence of length <= 1, empty when the key is not there)
Finish(ctx) ==
    qc' = [ctx EXCEPT !.phase = "done",
                      !.snapshot =
                          IF ctx.cache_query_context
                          THEN << [key |-> context_cache_key(ctx),
                                   data |-> cache_values(ctx)] >>
                          ELSE <<>>,
                      !.return_value =
                          [queries |-> ctx.results,
                           cache_key |-> IF ctx.cache_query_context
                                         THEN <<context_cache_key(ctx)>>
                                         ELSE <<>>]]

\* the caller retrieves only after the access gate has passed
CallerMayRetrieve == qc.phase = "granted"

\* get_payload is entered
GetPayload(cache_query_context, force_cached) ==
    /\ CallerMayRetrieve
    /\ IF qc.queries = <<>>
       THEN Finish([qc EXCEPT !.force_cached = force_cached,
                              !.cache_query_context = cache_query_context])
       ELSE qc' = [qc EXCEPT !.phase = "running", !.idx = 1,
                             !.force_cached = force_cached,
                             !.cache_query_context = cache_query_context]
    /\ UNCHANGED <<calls, data_cache, cache, written, last>>

IssuedQuery(r) == \E i \in DOMAIN r.ops : r.ops[i] = "datasource.query"

\* get_payload once get_df_payload has returned or raised (r) for the
\* query at idx
Stepped(r) ==
    IF r.raised # "None"
    THEN qc' = [qc EXCEPT !.phase = "raised",
                          !.queried = @ \/ IssuedQuery(r)]
    ELSE IF qc.idx = Len(qc.queries)
    THEN Finish([qc EXCEPT !.idx = @ + 1,
                           !.queried = @ \/ IssuedQuery(r),
                           !.results = Append(@, [query |-> qc.queries[qc.idx],
                                                  status |-> r.envelope.status])])
    ELSE qc' = [qc EXCEPT !.idx = @ + 1,
                          !.queried = @ \/ IssuedQuery(r),
                          !.results = Append(@, [query |-> qc.queries[qc.idx],
                                                 status |-> r.envelope.status])]

\* get_payload's next query: get_query_results calls get_df_payload
GetPayloadStep ==
    /\ qc.phase = "running"
    /\ \E env \in Envs(Ctx(qc.force, qc.custom_cache_timeout),
                       qc.queries[qc.idx], qc.force_cached, cache) :
         /\ Returned(Ctx(qc.force, qc.custom_cache_timeout),
                     qc.queries[qc.idx], qc.force_cached, env,
                get_df_payload(Ctx(qc.force, qc.custom_cache_timeout),
                               qc.queries[qc.idx], qc.force_cached, cache, env),
                get_df_payload(Ctx(qc.force, qc.custom_cache_timeout),
                               qc.queries[qc.idx], qc.force_cached,
                               Remove(cache,
                                   query_cache_key(
                                       Ctx(qc.force, qc.custom_cache_timeout),
                                       qc.queries[qc.idx])),
                               env))
         /\ Stepped(get_df_payload(Ctx(qc.force, qc.custom_cache_timeout),
                               qc.queries[qc.idx], qc.force_cached, cache, env))
    /\ UNCHANGED <<calls, data_cache>>

NextRequest ==
    \/ \E queries \in QueryLists, force \in BOOLEAN :
           Construct(queries, force, NoneInt)
    \/ \E invalid \in SUBSET (1..MaxQueries), permitted \in BOOLEAN :
           RaiseForAccess(invalid, permitted)
    \/ \E cache_query_context \in BOOLEAN, force_cached \in BOOLEAN :
           GetPayload(cache_query_context, force_cached)
    \/ GetPayloadStep

SpecRequest == Init /\ [][NextRequest]_vars

-----------------------------------------------------------------------------
(* The state machine that resolves the cache timeout of every orchestrator  *)
(* and datasource                                                           *)

\* null, 0 and two other values
Timeouts == {NoneInt, Some(0), Some(60), Some(-1)}

Datasources ==
    { [Datasource EXCEPT !.cache_timeout = t, !.has_database = TRUE,
                         !.database_cache_timeout = d] :
          t \in Timeouts, d \in Timeouts }
    \cup { [Datasource EXCEPT !.cache_timeout = t, !.has_database = FALSE] :
               t \in Timeouts }

InitTimeout ==
    /\ data_cache = TRUE
    /\ cache = EmptyDict
    /\ written = EmptyDict
    /\ calls = NoCalls
    /\ qc = NoContext
    /\ last \in { [called |-> FALSE, custom_cache_timeout |-> c,
                   datasource |-> ds] :
                      c \in Timeouts, ds \in Datasources }

\* the property cache_timeout is read
ReadCacheTimeout ==
    /\ ~last.called
    /\ last' = [last EXCEPT !.called = TRUE]
                   @@ [timeout |-> cache_timeout(last.custom_cache_timeout,
                                                 last.datasource)]
    /\ UNCHANGED <<calls, data_cache, cache, written, qc>>

NextTimeout == ReadCacheTimeout

SpecTimeout == InitTimeout /\ [][NextTimeout]_vars

-----------------------------------------------------------------------------
(* The state machine of the requests of principals under row-level          *)
(* security: the feature flag and the datasource's support are fixed, and    *)
(* the principals' requests share the data cache.                            *)

\* what security_manager.get_rls_ids answers for the principals: two
\* principals under different policies
RlsIdLists == { <<1>>, <<2>> }

InitRls ==
    /\ data_cache = TRUE
    /\ cache = EmptyDict
    /\ written = EmptyDict
    /\ calls = NoCalls
    /\ qc \in { [NoContext EXCEPT !.rls_feature = f, !.is_rls_supported = s] :
                   f \in BOOLEAN, s \in BOOLEAN }
    /\ last = NoCall

\* a principal's request builds a QueryContext and get_df_payload runs on a
\* query
RlsGetDfPayload(rls_ids, force, q, force_cached) ==
    /\ \E env \in Envs(CtxOf(force, NoneInt, rls_ids), q, force_cached, cache) :
           Returned(CtxOf(force, NoneInt, rls_ids), q, force_cached, env,
               get_df_payload(CtxOf(force, NoneInt, rls_ids), q,
                              force_cached, cache, env),
               get_df_payload(CtxOf(force, NoneInt, rls_ids), q,
                              force_cached,
                              Remove(cache,
                                  query_cache_key(
                                      CtxOf(force, NoneInt, rls_ids), q)),
                              env))
    /\ UNCHANGED <<calls, data_cache, qc>>

NextRls ==
    \E rls_ids \in RlsIdLists, force \in BOOLEAN, q \in QueryIds,
       force_cached \in BOOLEAN :
        RlsGetDfPayload(rls_ids, force, q, force_cached)

SpecRls == InitRls /\ [][NextRls]_vars

-----------------------------------------------------------------------------
(* The state machine of concurrent get_df_payload calls.  Each worker runs   *)
(* one call at a time; the store is touched in two places, data_cache.get    *)
(* and the set of set_and_log_cache, each of them one step, and the fetch    *)
(* between them touches no shared state.                                     *)

Workers == 1..MaxWorkers

\* the workers' calls are on one query, so that they compute the same key
SharedQueries == {"q1"}

\* the collaborators' answers to a worker's fetch: the source raises, fails
\* or succeeds, with or without rows; the pipeline or the merge may raise
ConcurrentEnvs(ctx, q) ==
    { e \in Envs(ctx, q, FALSE, EmptyDict) :
          /\ e.ds.raised = "None" => e.ds.error_message = Null
          /\ e.pp \in {"ok", "post_exception"}
          /\ e.ann \in {AnnDefault, [AnnDefault EXCEPT !.charts = {}]} }

Idle == [pc |-> "idle"]

InitConcurrent ==
    /\ data_cache = TRUE
    /\ cache = EmptyDict
    /\ written = EmptyDict
    /\ qc = NoContext
    /\ last = NoCall
    /\ calls = [workers |-> [w \in Workers |-> Idle], produced |-> {}]

\* worker w is at c, and the fetches so far have produced p
At(w, c, p) ==
    calls' = [workers |-> [calls.workers EXCEPT ![w] = c], produced |-> p]

\* a request reaches worker w: get_df_payload is entered
Enter(w, q, force, force_cached) ==
    /\ calls.workers[w].pc = "idle"
    /\ At(w, [pc |-> "read", q |-> q, force |-> force,
              force_cached |-> force_cached], calls.produced)
    /\ UNCHANGED <<data_cache, cache, written, qc, last>>

\* the call c has read the cache: rd
AfterGet(w, c, rd) ==
    IF cache_load_fails(c.force_cached, rd.is_loaded)
    THEN At(w, Idle, calls.produced)
    ELSE IF should_fetch(c.q, rd.is_loaded)
    THEN At(w, [c EXCEPT !.pc = "fetch"] @@ [rd |-> rd], calls.produced)
    ELSE At(w, [c EXCEPT !.pc = "return"]
                   @@ [rd |-> rd, fetch |-> FALSE, f |-> no_fetch(rd)],
            calls.produced)

\* the cache lookup of worker w's call, and what the call goes on to
CacheGet(w) ==
    /\ calls.workers[w].pc = "read"
    /\ AfterGet(w, calls.workers[w],
           cache_read(query_cache_key(Ctx(calls.workers[w].force, NoneInt),
                                      calls.workers[w].q),
                      data_cache, calls.workers[w].force, cache))
    /\ UNCHANGED <<data_cache, cache, written, qc, last>>

\* what a fetch that ended with f hands to the cache write, and how it got it
Produced(c, env, f) ==
    IF f.is_loaded
    THEN { [ key |-> query_cache_key(Ctx(c.force, NoneInt), c.q),
             value |-> value_to_cache(f), status |-> f.status, ops |-> f.ops,
             raw |-> env.ds.df ] }
    ELSE {}

\* the call c has fetched: f
AfterFetch(w, c, env, f) ==
    At(w, [pc |-> "return", q |-> c.q, force |-> c.force,
           force_cached |-> c.force_cached, rd |-> c.rd, fetch |-> TRUE,
           f |-> f],
       calls.produced \cup Produced(c, env, f))

\* the try block of worker w's call: validation, source query, pipeline,
\* annotation merge
SourceFetch(w) ==
    /\ calls.workers[w].pc = "fetch"
    /\ \E env \in ConcurrentEnvs(Ctx(calls.workers[w].force, NoneInt),
                                  calls.workers[w].q) :
           AfterFetch(w, calls.workers[w], env,
               source_fetch(QueryObjects[calls.workers[w].q],
                            calls.workers[w].force, calls.workers[w].rd, env))
    /\ UNCHANGED <<data_cache, cache, written, qc, last>>

\* worker w's call writes the cache when it has to, and returns
WriteAndReturn(w) ==
    /\ calls.workers[w].pc = "return"
    /\ cache' = after_fetch(Ctx(calls.workers[w].force, NoneInt), cache,
                    query_cache_key(Ctx(calls.workers[w].force, NoneInt),
                                    calls.workers[w].q),
                    calls.workers[w].rd, calls.workers[w].fetch,
                    calls.workers[w].f).store
    /\ At(w, Idle, calls.produced)
    /\ UNCHANGED <<data_cache, written, qc, last>>

NextConcurrent ==
    \/ \E w \in Workers, q \in SharedQueries, force \in BOOLEAN,
          force_cached \in BOOLEAN : Enter(w, q, force, force_cached)
    \/ \E w \in Workers : CacheGet(w)
    \/ \E w \in Workers : SourceFetch(w)
    \/ \E w \in Workers : WriteAndReturn(w)

SpecConcurrent == InitConcurrent /\ [][NextConcurrent]_vars

-----------------------------------------------------------------------------
(* The state machine that merges the annotations of every list of layers    *)

\* the layers a query may name: two native ones and three derived ones, all
\* but one under the same name
AnnotationLayers ==
    { Layer("Holidays", "NATIVE", "a1"), Layer("Holidays", "NATIVE", "a2"),
      Layer("Holidays", "line", "c7"), Layer("Holidays", "table", "c8"),
      Layer("Events", "line", "c9") }

LayerLists == SeqsUpTo(AnnotationLayers, MaxLayers)

\* the annotation providers' answers: every id resolves or one does not, and
\* the three ways a re-executed visualization ends
LayerAnswers ==
    { [layers |-> l, charts |-> c, viz |-> v] :
          l \in {{"a1", "a2"}, {"a2"}},
          c \in {{"c7", "c8", "c9"}, {"c8", "c9"}},
          v \in {"ok", "SupersetException", "Exception"} }

InitAnnotations ==
    /\ data_cache = TRUE
    /\ cache = EmptyDict
    /\ written = EmptyDict
    /\ calls = NoCalls
    /\ qc = NoContext
    /\ last \in { [called |-> FALSE, layers |-> l, force |-> f, ann |-> a] :
                      l \in LayerLists, f \in BOOLEAN, a \in LayerAnswers }

\* get_annotation_data runs on a query with these layers
GetAnnotationData ==
    /\ ~last.called
    /\ last' = [last EXCEPT !.called = TRUE]
                   @@ [merged |-> get_annotation_data(
                                      [annotation_layers |-> last.layers],
                                      last.force, last.ann)]
    /\ UNCHANGED <<calls, data_cache, cache, written, qc>>

NextAnnotations == GetAnnotationData

SpecAnnotations == InitAnnotations /\ [][NextAnnotations]_vars

-----------------------------------------------------------------------------
(* Properties of get_df_payload, stated on the call that has just returned *)

Called == last.called
Result == last.result
ReturnedEnvelope == last.called /\ last.result.raised = "None"
Took(op) == \E i \in DOMAIN last.result.ops : last.result.ops[i] = op
LastKey == last.key

\* the names the query refers to that the datasource does not know
InvalidNames(q) ==
    { c \in RangeSet(QueryObjects[q].columns)
             \cup RangeSet(QueryObjects[q].groupby)
             \cup { m.column : m \in { x \in RangeSet(QueryObjects[q].metrics) :
                                           x.column # "" } } :
        c \notin Datasource.column_names /\ c # DTTM_ALIAS }

\* the store held an entry with every field the read and the return need
HadWellFormedEntry ==
    last.had_entry /\ {"df", "query", "dttm"} \subseteq DOMAIN last.entry

\* the cache read could load an entry: the lookup is made and the entry
\* holds a table and a query text
Loadable ==
    /\ ~last.force /\ data_cache /\ last.q # NoQuery
    /\ last.had_entry /\ {"df", "query"} \subseteq DOMAIN last.entry

\* C1: a cache hit (no force, a configured cache, a key, a well-formed
\* entry) returns is_cached = true, status SUCCESS and the stored table,
\* query text and annotation data, and does nothing but the cache lookup:
\* no column validation, no source query, no annotation lookup, no write.
C1_CacheHit ==
    (Called /\ ~last.force /\ data_cache /\ last.q # NoQuery
        /\ HadWellFormedEntry)
    => /\ Result.raised = "None"
       /\ Result.envelope.is_cached
       /\ Result.envelope.status = SUCCESS
       /\ Result.envelope.df = last.entry.df
       /\ Result.envelope.query = last.entry.query
       /\ Result.envelope.annotation_data =
              IF "annotation_data" \in DOMAIN last.entry
              THEN last.entry.annotation_data ELSE EmptyDict
       /\ Result.ops = <<"data_cache.get">>
       /\ ~last.store_changed
       /\ cache[LastKey] = last.entry

C1_Witness ==
    /\ Called /\ ~last.force /\ data_cache /\ last.q = "q1"
    /\ HadWellFormedEntry
    /\ last.entry.df # EmptyDf
    /\ ReturnedEnvelope /\ Result.envelope.is_cached

\* C2: cache round trip: when the entry under the key is the one an earlier
\* call wrote after fetching it, a call without force returns is_cached =
\* true and the table that earlier call returned, without a source query.
C2_RoundTrip ==
    (Called /\ last.prior # <<>> /\ ~last.force)
    => /\ Result.raised = "None"
       /\ Result.envelope.is_cached
       /\ Result.envelope.df = last.prior[1]
       /\ ~Took("datasource.query")

C2_Witness ==
    /\ Called /\ last.prior # <<>> /\ ~last.force
    /\ ReturnedEnvelope
    /\ Result.envelope.is_cached
    /\ Result.envelope.df = <<"2">>

\* C3 as stated: with force set the cache is never read, the source is
\* queried instead, and a successful fetch overwrites the entry.
C3_ForceBypass_AsStated ==
    (Called /\ last.force)
    => /\ ~Took("data_cache.get")
       /\ Took("datasource.query")
       /\ (ReturnedEnvelope /\ Result.envelope.status # FAILED /\ data_cache)
              => /\ LastKey \in DOMAIN cache
                 /\ cache[LastKey].df = Result.envelope.df
                 /\ cache[LastKey].dttm = "now"

\* C3, amended: with force set the cache is never read; unless the call is
\* cache-only, has no query object or fails column validation, the source is
\* queried; and when the call returns a status other than FAILED and a cache
\* is configured, the entry under the key is the newly fetched result.
C3_ForceBypass ==
    (Called /\ last.force)
    => /\ ~Took("data_cache.get")
       /\ (~last.force_cached /\ last.q # NoQuery /\ InvalidNames(last.q) = {})
              => Took("datasource.query")
       /\ (ReturnedEnvelope /\ Took("datasource.query")
              /\ Result.envelope.status # FAILED /\ data_cache)
              => /\ LastKey \in DOMAIN cache
                 /\ cache[LastKey] =
                        [ df |-> Result.envelope.df,
                          query |-> Result.envelope.query,
                          annotation_data |-> Result.envelope.annotation_data,
                          dttm |-> "now" ]

C3_Witness ==
    /\ Called /\ last.force /\ last.had_entry
    /\ ReturnedEnvelope /\ Took("datasource.query")
    /\ Result.envelope.status = SUCCESS
    /\ cache[LastKey] # last.entry

\* C4: a cache-only call that loads no entry raises CacheLoadError to the
\* caller (no envelope), never queries the source and leaves the store alone.
C4_CacheOnlyMiss ==
    (Called /\ last.force_cached /\ ~Loadable)
    => /\ Result.raised = "CacheLoadError"
       /\ "envelope" \notin DOMAIN Result
       /\ ~Took("datasource.query")
       /\ ~Took("column_validation")
       /\ ~last.store_changed

C4_Witness ==
    /\ Called /\ last.force_cached /\ ~Loadable
    /\ ~last.force /\ ~last.had_entry /\ last.q = "q1"
    /\ Result.raised = "CacheLoadError"

\* C5 as stated: on a cache miss (no entry came back from the store), a
\* query that refers to names the datasource does not know returns status
\* FAILED with an error listing exactly those names, and the source is never
\* queried.
C5_ColumnValidation_AsStated ==
    (Called /\ last.q # NoQuery
        /\ (last.force \/ ~data_cache \/ ~last.had_entry)
        /\ InvalidNames(last.q) # {})
    => /\ Result.raised = "None"
       /\ Result.envelope.status = FAILED
       /\ Result.envelope.error.msg = "Columns missing in datasource"
       /\ RangeSet(Result.envelope.error.args) = InvalidNames(last.q)
       /\ ~Took("datasource.query")

\* C5, amended: the same of a call that is not cache-only; a cache-only call
\* raises CacheLoadError on the miss before any column is validated.
C5_ColumnValidation ==
    (Called /\ ~last.force_cached /\ last.q # NoQuery
        /\ (last.force \/ ~data_cache \/ ~last.had_entry)
        /\ InvalidNames(last.q) # {})
    => /\ Result.raised = "None"
       /\ Result.envelope.status = FAILED
       /\ Result.envelope.error.msg = "Columns missing in datasource"
       /\ RangeSet(Result.envelope.error.args) = InvalidNames(last.q)
       /\ Result.envelope.stacktrace = "None"
       /\ ~Took("datasource.query")

C5_Witness ==
    /\ Called /\ ~last.force_cached /\ last.q = "q2" /\ ~last.had_entry
    /\ ReturnedEnvelope
    /\ Result.envelope.status = FAILED
    /\ RangeSet(Result.envelope.error.args) = {"city", "revenue"}

\* C6: the store changes only in a call that queried the source, merged the
\* annotations and ended with a status other than FAILED under a key: a call
\* that returns FAILED, and a call without a key, write nothing.
C6_WriteOnlyOnSuccess ==
    Called
    => /\ ((ReturnedEnvelope /\ Result.envelope.status = FAILED)
              \/ last.q = NoQuery)
          => (~last.store_changed /\ ~Took("data_cache.set"))
       /\ (last.store_changed \/ Took("data_cache.set"))
          => /\ last.q # NoQuery
             /\ Took("datasource.query") /\ Took("get_annotation_data")
             /\ ReturnedEnvelope => Result.envelope.status # FAILED

C6_Witness ==
    /\ ReturnedEnvelope /\ Result.envelope.status = FAILED
    /\ Took("exec_post_processing") /\ Took("get_annotation_data")
    /\ data_cache /\ last.q = "q1"
    /\ ~last.store_changed

\* C7 as stated: every envelope with status FAILED carries a non-null error.
C7_FailedHasError ==
    (ReturnedEnvelope /\ Result.envelope.status = FAILED)
    => ~Result.envelope.error.null

\* C10 as stated: a malformed entry (here one that lacks its table or its
\* query text and still carries its dttm) is treated as a miss: the call
\* returns what it would with no entry under the key, with is_cached = false,
\* cached_dttm null and nothing taken from the entry.
C10_MalformedIsMiss ==
    (Called /\ ~last.force /\ data_cache /\ last.had_entry
        /\ Malformed(last.entry) /\ "dttm" \in DOMAIN last.entry
        /\ ~last.force_cached)
    => /\ Result.raised = "None"
       /\ ~Result.envelope.is_cached
       /\ Result.envelope.cached_dttm = "None"
       /\ Result = last.miss

\* the call merged annotations and a derived layer of the query names a
\* chart that does not resolve, every native layer resolving
MissingChart ==
    /\ Called /\ last.q # NoQuery /\ Took("get_annotation_data")
    /\ \A i \in DOMAIN QueryObjects[last.q].annotation_layers :
           IsNative(QueryObjects[last.q].annotation_layers[i])
           => QueryObjects[last.q].annotation_layers[i].value
                  \in last.env.ann.layers
    /\ \E i \in DOMAIN QueryObjects[last.q].annotation_layers :
           /\ IsDerived(QueryObjects[last.q].annotation_layers[i])
           /\ QueryObjects[last.q].annotation_layers[i].value
                  \notin last.env.ann.charts

\* C12 as stated: a derived layer whose chart does not resolve ends the call
\* with a FAILED envelope that carries the validation error about the missing
\* chart and no stacktrace.
C12_MissingChartIsValidation ==
    MissingChart
    => /\ Result.raised = "None"
       /\ Result.caught.class = VALIDATION
       /\ Result.envelope.status = FAILED
       /\ Result.envelope.error = Str("The chart does not exist", <<>>)
       /\ Result.envelope.stacktrace = "None"

\* C13: an exception raised in the fetch (column validation, source query,
\* pipeline, annotation merge) is not raised to the caller: the call returns
\* an envelope with status FAILED; after a validation error the envelope
\* carries its message and no stacktrace, after any other exception a
\* non-null error and the captured stacktrace.  Nothing is written.
C13_FetchErrorsRecovered ==
    (Called /\ Result.caught.class # "None")
    => /\ Result.raised = "None"
       /\ Result.envelope.status = FAILED
       /\ Result.caught.class = VALIDATION
              => /\ Result.envelope.error = Result.caught.err
                 /\ ~Result.envelope.error.null
                 /\ Result.envelope.stacktrace = "None"
       /\ Result.caught.class # VALIDATION
              => /\ ~Result.envelope.error.null
                 /\ Result.envelope.stacktrace = "traceback"
       /\ ~last.store_changed

C13_Witness ==
    /\ ReturnedEnvelope /\ Result.caught.class = "Exception"
    /\ Took("exec_post_processing")
    /\ Result.envelope.status = FAILED
    /\ Result.envelope.stacktrace = "traceback"
    /\ last.had_entry

\* the steps of the post-processing pipeline
PipelineSteps ==
    {"normalize_dttm_col", "df_metrics_to_num", "replace_inf",
     "exec_post_processing"}

\* C15: when the datasource returns a table with no rows, none of the
\* pipeline's steps is applied, the annotation merge still runs, and the call
\* returns an envelope with the empty table and rowcount 0.
C15_EmptyResultBypass ==
    (Called /\ Took("datasource.query") /\ last.env.ds.raised = "None"
        /\ last.env.ds.df = EmptyDf)
    => /\ \A step \in PipelineSteps : ~Took(step)
       /\ Took("get_annotation_data")
       /\ Result.raised = "None"
       /\ Result.envelope.df = EmptyDf
       /\ Result.envelope.rowcount = 0

C15_Witness ==
    /\ ReturnedEnvelope /\ Took("datasource.query")
    /\ last.env.ds.raised = "None" /\ last.env.ds.df = EmptyDf
    /\ QueryObjects[last.q].post_processing # <<>>
    /\ Result.envelope.status = SUCCESS
    /\ Result.envelope.rowcount = 0
    /\ DOMAIN Result.envelope.annotation_data # {}

\* C19: a cache-only call, whatever the force flag and the store hold, makes
\* no column validation, no source query and no annotation lookup, writes
\* nothing, and either raises CacheLoadError or returns the stored entry.
C19_CacheOnlyNoSideEffect ==
    (Called /\ last.force_cached)
    => /\ ~Took("datasource.query") /\ ~Took("get_annotation_data")
       /\ ~Took("column_validation")
       /\ ~Took("data_cache.set") /\ ~last.store_changed /\ ~Result.wrote
       /\ \/ Result.raised = "CacheLoadError"
          \/ /\ Result.raised = "None"
             /\ Loadable
             /\ Result.envelope.is_cached
             /\ Result.envelope.status = SUCCESS
             /\ Result.envelope.df = last.entry.df
             /\ Result.envelope.query = last.entry.query
             /\ Result.envelope.cached_dttm = last.entry.dttm

C19_Witness ==
    /\ Called /\ last.force_cached /\ ~last.force /\ last.q = "q1"
    /\ last.prior # <<>>
    /\ ReturnedEnvelope /\ Result.envelope.is_cached
    /\ Result.envelope.df = last.prior[1]

\* C14: with the row-level-security feature enabled and supported by the
\* datasource, the key of a request is derived with its principal's ids, so
\* requests of principals with different ids have different keys, every entry
\* in the store lies under the key of the principal that wrote it, and a
\* request served from the cache is served an entry written for the same ids;
\* with the feature disabled or unsupported the key is derived with the
\* empty list.
C14_RlsIsolation ==
    (Called /\ last.q # NoQuery)
    => IF qc.rls_feature /\ qc.is_rls_supported
       THEN /\ last.key = cache_key_digest(last.q, Datasource.uid, last.rls_ids)
            /\ \A r \in RlsIdLists \ {last.rls_ids} :
                   last.key # cache_key_digest(last.q, Datasource.uid, r)
            /\ \A k \in DOMAIN written :
                   k = cache_key_digest(k[1], Datasource.uid, written[k].by)
            /\ (ReturnedEnvelope /\ Result.envelope.is_cached)
                   => last.writer = <<last.rls_ids>>
       ELSE last.key = cache_key_digest(last.q, Datasource.uid, <<>>)

C14_Witness ==
    /\ qc.rls_feature /\ qc.is_rls_supported
    /\ ReturnedEnvelope /\ Result.envelope.is_cached
    /\ last.rls_ids = <<1>> /\ last.writer = <<last.rls_ids>>
    /\ \E k \in DOMAIN written :
           /\ k[1] = last.q /\ written[k].by = <<2>>
           /\ written[k].df # Result.envelope.df

-----------------------------------------------------------------------------
(* Properties of the request *)

Gated == qc.phase \notin {"none", "new"}

\* the first position whose validate() raises
FirstInvalid == CHOOSE i \in qc.invalid : \A j \in qc.invalid : i <= j

\* C16: raise_for_access validates the queries in list order and, once all
\* of them validated, makes one permission check, whose failure it raises as
\* it is; when a validation raises, that error is raised, no later query is
\* validated and no permission check is made.
C16_ValidateThenCheck ==
    Gated
    => IF qc.invalid = {}
       THEN /\ qc.access_ops =
                   Append(Validations(Len(qc.queries)), PermissionCheck)
            /\ qc.access_raised = IF qc.principal_permitted THEN "None"
                                  ELSE "SupersetSecurityException"
       ELSE /\ qc.access_ops = Validations(FirstInvalid)
            /\ qc.access_raised = VALIDATION
            /\ qc.phase = "denied"

C16_Witness ==
    /\ Gated /\ Len(qc.queries) = MaxQueries
    /\ qc.invalid = {1, MaxQueries} /\ qc.principal_permitted
    /\ qc.access_ops = <<Validate(1)>>

\* the results so far are those of the first n queries, in list order
ResultsOfFirst(n) ==
    /\ Len(qc.results) = n
    /\ \A i \in 1..n : qc.results[i].query = qc.queries[i]

\* C20: get_payload takes the queries one by one in list order; the
\* whole-context snapshot is written under the "qc-" key, and the key
\* returned as cache_key, exactly when every retrieval has returned and
\* cache_query_context is set, whatever the statuses of the envelopes; it is
\* not written while a retrieval is still to come nor when one has raised.
C20_SnapshotAfterAllQueries ==
    /\ qc.phase = "running"
          => /\ ResultsOfFirst(qc.idx - 1) /\ qc.idx <= Len(qc.queries)
             /\ qc.snapshot = <<>>
    /\ qc.phase = "raised"
          => /\ ResultsOfFirst(qc.idx - 1) /\ qc.snapshot = <<>>
             /\ last.called /\ last.result.raised # "None"
    /\ qc.phase = "done"
          => /\ ResultsOfFirst(Len(qc.queries))
             /\ qc.return_value.queries = qc.results
             /\ IF qc.cache_query_context
                THEN /\ qc.snapshot =
                            << [key |-> context_cache_key(qc),
                                data |-> cache_values(qc)] >>
                     /\ qc.snapshot[1].key.prefix = "qc-"
                     /\ qc.return_value.cache_key = <<qc.snapshot[1].key>>
                ELSE /\ qc.snapshot = <<>>
                     /\ qc.return_value.cache_key = <<>>
    /\ qc.phase \in {"none", "new", "granted", "denied"} => qc.snapshot = <<>>

\* every envelope has status FAILED and the snapshot is written all the same
C20_Witness ==
    /\ qc.phase = "done" /\ qc.cache_query_context
    /\ Len(qc.queries) = MaxQueries
    /\ \A i \in DOMAIN qc.results : qc.results[i].status = FAILED
    /\ qc.snapshot # <<>>

-----------------------------------------------------------------------------
(* Properties of cache_timeout *)

\* C9 as stated: the resolved timeout is the first non-null of the per-call
\* override, the datasource's timeout, its owning connection's timeout (when
\* it has one) and the process-wide default, 0 counting as non-null.
C9_FirstNonNull ==
    (last.called /\ "timeout" \in DOMAIN last)
    => /\ last.timeout.raised = "None"
       /\ last.timeout.value =
            IF last.custom_cache_timeout # NoneInt
            THEN last.custom_cache_timeout
            ELSE IF last.datasource.cache_timeout # NoneInt
            THEN last.datasource.cache_timeout
            ELSE IF last.datasource.has_database
                    /\ last.datasource.database_cache_timeout # NoneInt
            THEN last.datasource.database_cache_timeout
            ELSE Some(CACHE_DEFAULT_TIMEOUT)

-----------------------------------------------------------------------------
(* Properties of the annotation merge *)

Merged == last.called /\ "merged" \in DOMAIN last
\* get_annotation_data returned a mapping
MergedMapping == Merged /\ last.merged.raised = "None"

\* the data the merge holds under a name is that of the layer at index i
HoldsLayer(i) ==
    /\ last.layers[i].name \in DOMAIN last.merged.value
    /\ last.merged.value[last.layers[i].name].records = last.layers[i].value
    /\ last.merged.value[last.layers[i].name].source =
           IF IsNative(last.layers[i]) THEN "native" ELSE "viz"

SameName(i, j) == last.layers[i].name = last.layers[j].name

\* C11 as stated: when two layers share a name, the mapping holds under that
\* name the data of the layer that comes last in the list, whatever the
\* source types.
C11_LastInListWins ==
    MergedMapping
    => \A i \in DOMAIN last.layers :
           (\A j \in DOMAIN last.layers : SameName(i, j) => j <= i)
           => HoldsLayer(i)

\* C11, amended: the native layers are merged first and the derived ones
\* after them, each class in list order: under a name the mapping holds the
\* data of the last derived layer of that name and, when no derived layer has
\* that name, of the last native one.
C11_LastMergedWins ==
    MergedMapping
    => /\ DOMAIN last.merged.value =
              {last.layers[i].name : i \in DOMAIN last.layers}
       /\ \A i \in DOMAIN last.layers :
              (\A j \in DOMAIN last.layers :
                   (SameName(i, j) /\ IsDerived(last.layers[j]) = IsDerived(last.layers[i]))
                   => j <= i)
              /\ (IsNative(last.layers[i])
                     => \A j \in DOMAIN last.layers :
                            SameName(i, j) => IsNative(last.layers[j]))
              => HoldsLayer(i)

C11_Witness ==
    /\ MergedMapping
    /\ \E i, j \in DOMAIN last.layers :
           /\ i < j /\ SameName(i, j)
           /\ IsDerived(last.layers[i]) /\ IsNative(last.layers[j])
           /\ HoldsLayer(i)

\* the merge re-executed a visualization and it raised: every native layer
\* resolves, the chart of the first derived layer resolves, and the
\* visualization ends with an exception
VizRaised ==
    /\ Merged /\ last.ann.viz # "ok"
    /\ \A i \in DOMAIN last.layers :
           IsNative(last.layers[i]) => last.layers[i].value \in last.ann.layers
    /\ \E i \in DOMAIN last.layers :
           /\ IsDerived(last.layers[i])
           /\ last.layers[i].value \in last.ann.charts
           /\ \A j \in DOMAIN last.layers :
                  IsDerived(last.layers[j]) => i <= j

\* the message of the exception the visualization raised
VizMessage ==
    IF last.ann.viz = "SupersetException" THEN Str("viz failed", <<>>)
    ELSE Str("viz crashed", <<>>)

\* C17 as stated: whatever the class of the exception the re-executed
\* visualization raised, the merge ends with a validation error carrying that
\* exception's message.
C17_VizErrorsTranslated ==
    VizRaised
    => /\ last.merged.raised = VALIDATION
       /\ last.merged.err = VizMessage

-----------------------------------------------------------------------------
(* Properties of concurrent calls *)

Has(ops, op) == \E i \in DOMAIN ops : ops[i] = op

\* v is what a fetch produced under key k after a source query that did not
\* fail, the whole pipeline and the annotation merge
Complete(k, v) ==
    /\ v.key = k
    /\ v.status # FAILED
    /\ Has(v.ops, "datasource.query") /\ Has(v.ops, "get_annotation_data")
    /\ v.raw # EmptyDf => \A step \in PipelineSteps : Has(v.ops, step)
    /\ v.value.df = exec_post_processing(replace_inf(v.raw),
                                         QueryObjects[k[1]].post_processing)

\* C18: whatever the interleaving of the workers' calls, every entry in the
\* store is the value a fetch produced under that key after a source query
\* with a status other than FAILED, the pipeline and the annotation merge.
C18_OnlyCompleteEntries ==
    \A k \in DOMAIN cache :
        \E v \in calls.produced :
            /\ Complete(k, v)
            /\ cache[k] = v.value @@ [dttm |-> "now"]

\* two calls missed and fetched: one has written, the other is about to
\* write another value over it
C18_Witness ==
    \E w \in Workers, k \in DOMAIN cache :
        /\ calls.workers[w].pc = "return" /\ calls.workers[w].fetch
        /\ ~calls.workers[w].rd.found /\ ~calls.workers[w].force
        /\ calls.workers[w].f.is_loaded
        /\ k[1] = calls.workers[w].q
        /\ calls.workers[w].f.df # cache[k].df

=============================================================================
